---- MODULE Spec2Model ----
(***************************************************************************)
(* The realtime log viewer's tail watcher (LogFileWatcher) of              *)
(* spiralsafe-mono: a poll timer measures the tracked session file, reads  *)
(* the newly appended byte range asynchronously, decodes it line by line   *)
(* and fans the entries out to the subscribed callbacks.                   *)
(*                                                                         *)
(* Files are sequences of bytes (one-character strings).  JSON.parse is    *)
(* modelled exactly on the byte alphabet  { } [ ] " : 1 2 x t space : over *)
(* that alphabet the JSON texts are the numbers made of the digits, the    *)
(* strings, the arrays of at most one element and the objects of at most   *)
(* one member, with insignificant spaces anywhere between tokens.  The     *)
(* byte t inside a string is the key "timestamp", and the timestamps are   *)
(* strings of digits.                                                      *)
(***************************************************************************)
EXTENDS Naturals, Sequences, FiniteSets

----------------------------------------------------------------------------
(* Bytes and lines *)

NL == "\n"
SP == " "
QUOTE == "\""
Digits == {"1", "2"}

\* String.prototype.trim() leaves nothing: the line holds only white space.
\* parseLines keeps a line when line.trim() is truthy.
IsBlank(line) ==
    \A i \in 1..Len(line) : line[i] = SP

\* First index >= i of s that holds no space (Len(s)+1 when there is none).
RECURSIVE SkipWs(_, _)
SkipWs(s, i) ==
    IF i <= Len(s) /\ s[i] = SP THEN SkipWs(s, i + 1) ELSE i

\* First index >= i of s that holds no digit.
RECURSIVE SkipDigits(_, _)
SkipDigits(s, i) ==
    IF i <= Len(s) /\ s[i] \in Digits THEN SkipDigits(s, i + 1) ELSE i

\* First index >= i of s that holds a double quote (Len(s)+1 when none).
RECURSIVE FindQuote(_, _)
FindQuote(s, i) ==
    IF i <= Len(s) /\ s[i] # QUOTE THEN FindQuote(s, i + 1) ELSE i

NoParse == [ok |-> FALSE, next |-> 0, val |-> <<>>]

\* A JSON string starting at s[i]: the bytes up to the closing quote.
ParseString(s, i) ==
    IF i <= Len(s) /\ s[i] = QUOTE
    THEN LET j == FindQuote(s, i + 1)
         IN  IF j <= Len(s)
             THEN [ok |-> TRUE, next |-> j + 1, val |-> SubSeq(s, i, j)]
             ELSE NoParse
    ELSE NoParse

\* A JSON value starting at s[i]: where it ends and the value, written as
\* its text without insignificant white space (two texts decode to equal
\* values exactly when these are equal).
RECURSIVE ParseValue(_, _)
ParseValue(s, i) ==
    IF i > Len(s) THEN NoParse
    ELSE IF s[i] \in Digits
    THEN LET j == SkipDigits(s, i)
         IN  [ok |-> TRUE, next |-> j, val |-> SubSeq(s, i, j - 1)]
    ELSE IF s[i] = QUOTE THEN ParseString(s, i)
    ELSE IF s[i] = "["
    THEN LET j == SkipWs(s, i + 1)
         IN  IF j <= Len(s) /\ s[j] = "]"
             THEN [ok |-> TRUE, next |-> j + 1, val |-> <<"[", "]">>]
             ELSE LET v == ParseValue(s, j)
                      k == SkipWs(s, v.next)
                  IN  IF v.ok /\ k <= Len(s) /\ s[k] = "]"
                      THEN [ok |-> TRUE, next |-> k + 1,
                            val |-> <<"[">> \o v.val \o <<"]">>]
                      ELSE NoParse
    ELSE IF s[i] = "{"
    THEN LET j == SkipWs(s, i + 1)
         IN  IF j <= Len(s) /\ s[j] = "}"
             THEN [ok |-> TRUE, next |-> j + 1, val |-> <<"{", "}">>]
             ELSE LET key == ParseString(s, j)
                      c == SkipWs(s, key.next)
                  IN  IF key.ok /\ c <= Len(s) /\ s[c] = ":"
                      THEN LET v == ParseValue(s, SkipWs(s, c + 1))
                               k == SkipWs(s, v.next)
                           IN  IF v.ok /\ k <= Len(s) /\ s[k] = "}"
                               THEN [ok |-> TRUE, next |-> k + 1,
                                     val |-> <<"{">> \o key.val \o <<":">>
                                             \o v.val \o <<"}">>]
                               ELSE NoParse
                      ELSE NoParse
    ELSE NoParse

\* JSON.parse(line): one value with optional white space around it, and
\* nothing else; ok = FALSE stands for the SyntaxError it throws.
JSONparse(line) ==
    LET v == ParseValue(line, SkipWs(line, 1))
    IN  IF v.ok /\ SkipWs(line, v.next) = Len(line) + 1
        THEN [ok |-> TRUE, val |-> v.val]
        ELSE [ok |-> FALSE, val |-> <<>>]

\* content.split("\n"): the pieces between newlines, each with the index in
\* content of its first byte (pos, kept for the delivery history only).
RECURSIVE SplitFrom(_, _, _)
SplitFrom(content, first, i) ==
    IF i > Len(content)
    THEN << [pos |-> first, text |-> SubSeq(content, first, Len(content))] >>
    ELSE IF content[i] = NL
    THEN << [pos |-> first, text |-> SubSeq(content, first, i - 1)] >>
         \o SplitFrom(content, i + 1, i + 1)
    ELSE SplitFrom(content, first, i + 1)

split(content) == SplitFrom(content, 1, 1)

\* The loop without its try/catch: the first line that does not parse ends
\* the processing of the range.
RECURSIVE ParseEachAbort(_)
ParseEachAbort(lines) ==
    IF lines = <<>> THEN <<>>
    ELSE LET p == JSONparse(Head(lines).text)
         IN  IF p.ok
             THEN << [pos |-> Head(lines).pos, val |-> p.val] >>
                  \o ParseEachAbort(Tail(lines))
             ELSE <<>>

\* The for loop of parseLines over the kept lines: a line that parses is
\* pushed, a line that throws is skipped.
RECURSIVE ParseEach(_)
ParseEach(lines) ==
    IF lines = <<>> THEN <<>>
    ELSE LET p == JSONparse(Head(lines).text)
         IN  (IF p.ok THEN << [pos |-> Head(lines).pos, val |-> p.val] >>
                      ELSE <<>>)
             \o ParseEach(Tail(lines))

NotBlank(l) == ~IsBlank(l.text)

parseLines(content) ==
    ParseEach(SelectSeq(split(content), NotBlank))

----------------------------------------------------------------------------
(* The log store and the watcher's environment *)

Sessions == {"A", "B"}
NoSession == "none"          \* currentSessionId = null
Callbacks == {"c1", "c2"}
Throwing == {"c2"}           \* callbacks that raise on every invocation

\* The records a writer appends, one per line.
L1 == <<"{", QUOTE, "1", QUOTE, ":", "1", "}">>
L2 == <<"{", QUOTE, "2", QUOTE, ":", "2", "}">>
Bad == <<"{", "}", "x">>
GoodLines == {L1, L2}
AllLines == {L1, L2, Bad}

MaxLines == 3        \* lines a writer begins, over all files
MaxTruncs == 1       \* external truncations, over all files
MaxFaults == 1       \* failed file reads
MaxPending == 2      \* reads in flight at once
MaxHold == 3         \* bytes a write may leave for the next write

WholeLines == {0}
LateNewline == {0, 1}
AnyCut == 0..MaxHold

VARIABLES
    file,               \* session id -> the bytes of its log file
    wpend,              \* session id -> bytes of the line being written
                        \*   that have not reached the file yet
    nlines,             \* lines begun so far
    gen,                \* session id -> truncations of its file so far
    nfaults,            \* failed reads so far
    lastSize,           \* LogFileWatcher.lastSize
    interval,           \* LogFileWatcher.interval is set (the timer runs)
    subscribers,        \* LogFileWatcher.subscribers, in insertion order
    currentSessionId,   \* LogFileWatcher.currentSessionId
    pending,            \* slice.text() promises not yet settled
    received,           \* callback -> the entries it was invoked with
    prior,              \* the latest baseline: what start(), setSession()
                        \*   or a tick that saw the file shrink found in
                        \*   the tracked file
    dir,                \* PATHS.LOGS_DIR: whether it exists, and its files
                        \*   in readdir order
    result,             \* what the latest query or request returned
    envSession,         \* the viewer server's constant currentSessionId
    other,              \* the fields and deliveries of a second
                        \*   LogFileWatcher instance
    streams,            \* callback -> the SSE stream of the viewer server
                        \*   that registered it
    context,            \* the context object handed to the gate validators
    gateResult,         \* what the latest validateGate or
                        \*   isTransitionReady call produced
    today,              \* the UTC date, as toISOString formats it
    counters,           \* atom-trail: the module's counters Map
    tags,               \* atom-trail: the tags generated in this process
    counterFile,        \* atom-tag script: the .count file of one
                        \*   type and date
    runs,               \* atom-tag script: invocation -> where it stands
    issued,             \* atom-tag script: the counters returned so far
    hooks,              \* SessionStart hook: invocation -> where it stands
    viewers             \* the viewer server processes spawned so far

vars == <<file, wpend, nlines, gen, nfaults, lastSize, interval,
          subscribers, currentSessionId, pending, received, prior,
          dir, result, envSession, other, streams,
          context, gateResult, today, counters, tags,
          counterFile, runs, issued, hooks, viewers>>

envVars == <<file, wpend, nlines, gen>>
watcherVars == <<lastSize, interval, subscribers, currentSessionId>>

\* The provenance package, the tagging script and the SessionStart hook.
toolVars == <<context, gateResult, today, counters, tags,
              counterFile, runs, issued, hooks, viewers>>

\* What lies outside this watcher instance.
outerVars == <<dir, result, envSession, other, streams, toolVars>>

\* The log directory does not exist.
NoDir == [exists |-> FALSE, files |-> <<>>]

\* No query has returned yet.
NoResult == [op |-> "none", raised |-> FALSE, value |-> <<>>]

\* A LogFileWatcher as its field initialisers leave it.
NewWatcher == [lastSize |-> 0, pending |-> <<>>, received |-> <<>>]

\* No SSE stream has been opened.
NoStreams ==
    [c \in Callbacks |->
        [open |-> FALSE, session |-> NoSession, heartbeat |-> FALSE]]

\* JavaScript values, as far as the provenance code looks at them.
Undefined == [type |-> "undefined"]
Bool(b) == [type |-> "boolean", b |-> b]
Num(n) == [type |-> "number", n |-> n]
Str(n) == [type |-> "string", length |-> n]
Arr(n) == [type |-> "array", length |-> n]
Obj(p) == [type |-> "object", props |-> p]
NoProps == [n \in {} |-> Undefined]

\* No gate has been validated yet.
NoGateResult ==
    [kind |-> "none", gate |-> "none", from |-> "none", to |-> "none",
     passed |-> FALSE, checks |-> <<>>, failed_checks |-> <<>>]

\* new Date().toISOString().slice(0, 10).replace(/-/g, '') on two
\* consecutive days.
Day1 == <<"2", "0", "2", "6", "1", "1", "0", "1">>
Day2 == <<"2", "0", "2", "6", "1", "1", "0", "2">>

\* const counters = new Map<string, number>()
NoCounters == [k \in {} |-> 0]

\* The counter file of the script does not exist.
NoCounterFile == [exists |-> FALSE, content |-> <<>>]

\* Invocations of the tagging script, and of the SessionStart hook.
Procs == {"p1", "p2", "p3"}
Hooks == {"h1", "h2"}

NotRunning == [pc |-> "idle", count |-> 0]
NoHook ==
    [pc |-> "idle", source |-> "none", session |-> NoSession,
     logged |-> FALSE, probed |-> FALSE, viewerRunning |-> FALSE,
     spawned |-> 0, written |-> FALSE]

\* Nothing of the provenance package, the script or the hook has run.
ToolsIdle ==
    /\ context = Obj(NoProps)
    /\ gateResult = NoGateResult
    /\ today = Day1
    /\ counters = NoCounters
    /\ tags = <<>>
    /\ counterFile = NoCounterFile
    /\ runs = [p \in Procs |-> NotRunning]
    /\ issued = <<>>
    /\ hooks = [h \in Hooks |-> NoHook]
    /\ viewers = <<>>

\* No log directory, no request served yet, a second instance just made.
OuterIdle ==
    /\ dir = NoDir
    /\ result = NoResult
    /\ envSession = NoSession
    /\ other = NewWatcher
    /\ streams = NoStreams
    /\ ToolsIdle

Min(a, b) == IF a <= b THEN a ELSE b

Vals(log) == [i \in 1..Len(log) |-> log[i].val]

\* getLogFilePath() is null exactly when no session is selected.
\* getFileSize(): 0 without a session, else Bun.file(path).size, which is 0
\* for an absent file; the catch branch returns 0 as well.
getFileSize(sid, fails) ==
    IF sid = NoSession \/ fails THEN 0 ELSE Len(file[sid])

\* The baseline operation op sets: the first n bytes of the file of session
\* sid, as it is now, are not to be emitted.
Attach(sid, n, op) ==
    [sid |-> sid, gen |-> IF sid = NoSession THEN 0 ELSE gen[sid],
     n |-> n, op |-> op]

IsIn(c, subs) == \E i \in 1..Len(subs) : subs[i] = c

Remove(seq, i) == SubSeq(seq, 1, i - 1) \o SubSeq(seq, i + 1, Len(seq))

\* emit without its try/catch: the error of a callback ends the loop.
RECURSIVE emitNoCatch(_, _, _)
emitNoCatch(entry, subs, rec) ==
    IF subs = <<>> THEN rec
    ELSE IF Head(subs) \in Throwing
    THEN [rec EXCEPT ![Head(subs)] = Append(@, entry)]
    ELSE emitNoCatch(entry, Tail(subs),
                     [rec EXCEPT ![Head(subs)] = Append(@, entry)])

\* emit(entry): every callback of the set is invoked with the entry, in
\* insertion order; an error a callback raises is caught and logged, and the
\* loop goes on with the next callback.
RECURSIVE emit(_, _, _)
emit(entry, subs, rec) ==
    IF subs = <<>> THEN rec
    ELSE emit(entry, Tail(subs),
              [rec EXCEPT ![Head(subs)] = Append(@, entry)])

\* The loop of the then-callback: for (const entry of entries) emit(entry).
RECURSIVE EmitAll(_, _, _)
EmitAll(entries, subs, rec) ==
    IF entries = <<>> THEN rec
    ELSE EmitAll(Tail(entries), subs, emit(Head(entries), subs, rec))

\* What file.slice(from, to).text() yields: the bytes of the range that the
\* file holds when the read is performed.
SliceText(sid, from, to) ==
    SubSeq(file[sid], from + 1, Min(to, Len(file[sid])))

\* The entries decoded from a read, each with the place it was read from.
EntriesOf(r) ==
    LET es == parseLines(SliceText(r.sid, r.from, r.to))
    IN  [i \in 1..Len(es) |->
            [sid |-> r.sid, gen |-> gen[r.sid],
             off |-> r.from + es[i].pos - 1, val |-> es[i].val]]

\* A later poll tick has begun while the read was still in flight.
MarkLate(reads) ==
    [i \in 1..Len(reads) |-> [reads[i] EXCEPT !.late = TRUE]]

----------------------------------------------------------------------------
(* Operations of LogFileWatcher *)

start ==
    /\ IF interval
       THEN UNCHANGED <<lastSize, interval, prior>>
       ELSE /\ lastSize' = getFileSize(currentSessionId, FALSE)
            /\ interval' = TRUE
            /\ prior' = Attach(currentSessionId,
                               getFileSize(currentSessionId, FALSE), "start")
    /\ UNCHANGED outerVars
    /\ UNCHANGED <<envVars, nfaults, subscribers, currentSessionId,
                   pending, received>>

\* stop() that also forgets the subscribers.
stopClearing ==
    /\ interval' = FALSE
    /\ subscribers' = <<>>
    /\ UNCHANGED <<envVars, nfaults, lastSize, currentSessionId, pending,
                   received, prior, outerVars>>

stop ==
    /\ interval' = FALSE
    /\ UNCHANGED outerVars
    /\ UNCHANGED <<envVars, nfaults, lastSize, subscribers,
                   currentSessionId, pending, received, prior>>

subscribe(c) ==
    /\ subscribers' = IF IsIn(c, subscribers) THEN subscribers
                      ELSE Append(subscribers, c)
    /\ UNCHANGED outerVars
    /\ UNCHANGED <<envVars, nfaults, lastSize, interval, currentSessionId,
                   pending, received, prior>>

\* The handle subscribe returned: this.subscribers.delete(callback).
NotCallback(c) == LET Keep(d) == d # c IN SelectSeq(subscribers, Keep)

unsubscribe(c) ==
    /\ subscribers' = NotCallback(c)
    /\ UNCHANGED outerVars
    /\ UNCHANGED <<envVars, nfaults, lastSize, interval, currentSessionId,
                   pending, received, prior>>

\* setSession that keeps the offset of the file tracked before.
setSessionKeep(sid) ==
    /\ currentSessionId' = sid
    /\ lastSize' = lastSize
    /\ prior' = Attach(sid, getFileSize(sid, FALSE), "setSession")
    /\ UNCHANGED <<envVars, nfaults, interval, subscribers, pending,
                   received, outerVars>>

setSession(sid) ==
    /\ currentSessionId' = sid
    /\ lastSize' = getFileSize(sid, FALSE)
    /\ prior' = Attach(sid, getFileSize(sid, FALSE), "setSession")
    /\ UNCHANGED outerVars
    /\ UNCHANGED <<envVars, nfaults, interval, subscribers, pending,
                   received>>

\* The else-if branch left out: lastSize stays where it was.
ShrunkSizeKept(currentSize) == lastSize

\* The else-if branch of checkForChanges: a file found smaller than lastSize
\* was truncated or reset, and lastSize follows it.
ShrunkSize(currentSize) ==
    IF currentSize < lastSize THEN currentSize ELSE lastSize

\* One firing of the interval timer: checkForChanges() up to the point where
\* it returns; the read it starts settles later (ReadDone, ReadFailed).
\* fails: the size of the file cannot be read in this tick.
checkForChanges(fails) ==
    LET currentSize == getFileSize(currentSessionId, fails)
    IN  /\ interval
        /\ fails => /\ currentSessionId # NoSession
                    /\ nfaults < MaxFaults
        /\ nfaults' = IF fails THEN nfaults + 1 ELSE nfaults
        /\ IF currentSize > lastSize
           THEN /\ Len(pending) < MaxPending
                /\ pending' = Append(MarkLate(pending),
                                     [sid |-> currentSessionId,
                                      from |-> lastSize,
                                      to |-> currentSize,
                                      late |-> FALSE])
                /\ lastSize' = currentSize
                /\ prior' = prior
           ELSE /\ pending' = MarkLate(pending)
                /\ lastSize' = ShrunkSize(currentSize)
                /\ prior' = IF currentSize < lastSize
                            THEN Attach(currentSessionId, currentSize,
                                        "shrink")
                            ELSE prior
        /\ UNCHANGED outerVars
        /\ UNCHANGED <<envVars, interval, subscribers, currentSessionId,
                       received>>

\* The promise of pending read i is fulfilled: the then-callback decodes
\* the text and emits the entries to the callbacks subscribed now.
ReadDone(i) ==
    /\ i \in 1..Len(pending)
    /\ received' = EmitAll(EntriesOf(pending[i]), subscribers, received)
    /\ pending' = Remove(pending, i)
    /\ UNCHANGED outerVars
    /\ UNCHANGED <<envVars, nfaults, watcherVars, prior>>

\* The promise of pending read i is rejected: no then-callback runs.
ReadFailed(i) ==
    /\ i \in 1..Len(pending)
    /\ nfaults < MaxFaults
    /\ nfaults' = nfaults + 1
    /\ pending' = Remove(pending, i)
    /\ UNCHANGED outerVars
    /\ UNCHANGED <<envVars, watcherVars, received, prior>>

----------------------------------------------------------------------------
(* The environment: writers and rotation *)

\* A writer appends a record and its newline; the bytes reach the file in
\* one piece or in several.  Hold: how many bytes a write may leave for the
\* next one.
AppendBytes(sid, Lines, Hold) ==
    /\ IF wpend[sid] = <<>>
       THEN /\ nlines < MaxLines
            /\ nlines' = nlines + 1
            /\ \E line \in Lines : \E h \in Hold :
                 LET text == Append(line, NL)
                     k == Len(text) - h
                 IN  /\ h < Len(text)
                     /\ file' = [file EXCEPT ![sid] = @ \o SubSeq(text, 1, k)]
                     /\ wpend' = [wpend EXCEPT
                                    ![sid] = SubSeq(text, k + 1, Len(text))]
       ELSE /\ nlines' = nlines
            /\ \E h \in Hold :
                 LET k == Len(wpend[sid]) - h
                 IN  /\ h < Len(wpend[sid])
                     /\ file' = [file EXCEPT
                                   ![sid] = @ \o SubSeq(wpend[sid], 1, k)]
                     /\ wpend' = [wpend EXCEPT
                                    ![sid] = SubSeq(@, k + 1, Len(@))]
    /\ UNCHANGED outerVars
    /\ UNCHANGED <<gen, nfaults, watcherVars, pending, received, prior>>

\* The offsets of a file at which a line starts.
LineStarts(f) == {0} \cup {n \in 1..Len(f) : f[n] = NL}

TotalTruncs == gen["A"] + gen["B"]

\* The file is truncated or rotated by another process.
Truncate(sid, n) ==
    /\ n < Len(file[sid])
    /\ TotalTruncs < MaxTruncs
    /\ file' = [file EXCEPT ![sid] = SubSeq(@, 1, n)]
    /\ gen' = [gen EXCEPT ![sid] = @ + 1]
    /\ UNCHANGED outerVars
    /\ UNCHANGED <<wpend, nlines, nfaults, watcherVars, pending, received,
                   prior>>

----------------------------------------------------------------------------------------------------------------------------------------
(* The watcher behind its public operations, over a growing log store *)

NoFiles == [s \in Sessions |-> <<>>]

\* The state after construction (field initialisers of the class); session
\* B's log already holds one record written by an earlier process.
Init ==
    /\ file = [NoFiles EXCEPT !["B"] = Append(L1, NL)]
    /\ wpend = NoFiles
    /\ nlines = 0
    /\ gen = [s \in Sessions |-> 0]
    /\ nfaults = 0
    /\ lastSize = 0
    /\ interval = FALSE
    /\ subscribers = <<>>
    /\ currentSessionId = NoSession
    /\ pending = <<>>
    /\ received = [c \in Callbacks |-> <<>>]
    /\ prior = Attach(NoSession, 0, "new")
    /\ OuterIdle

Next ==
    \/ start
    \/ stop
    \/ subscribe("c1")
    \/ unsubscribe("c1")
    \/ \E sid \in Sessions : setSession(sid)
    \/ checkForChanges(FALSE)
    \/ \E i \in 1..MaxPending : ReadDone(i)
    \/ \E sid \in Sessions : AppendBytes(sid, GoodLines, WholeLines)

Spec == Init /\ [][Next]_vars

----------------------------------------------------------------------------
(* Pure growth: one tracked session, one subscriber registered before the  *)
(* first append, well-formed records only, reads settling in the order     *)
(* they were started                                                       *)

InitTailing ==
    /\ file = NoFiles
    /\ wpend = NoFiles
    /\ nlines = 0
    /\ gen = [s \in Sessions |-> 0]
    /\ nfaults = 0
    /\ lastSize = 0
    /\ interval = TRUE
    /\ subscribers = <<"c1">>
    /\ currentSessionId = "A"
    /\ pending = <<>>
    /\ received = [c \in Callbacks |-> <<>>]
    /\ prior = [sid |-> "A", gen |-> 0, n |-> 0, op |-> "setSession"]
    /\ OuterIdle

NextGrowth ==
    \/ AppendBytes("A", GoodLines, AnyCut)
    \/ checkForChanges(FALSE)
    \/ ReadDone(1)

SpecGrowth == InitTailing /\ [][NextGrowth]_vars

----------------------------------------------------------------------------
(* Malformed lines among the records *)

NextCorrupt ==
    \/ AppendBytes("A", AllLines, LateNewline)
    \/ checkForChanges(FALSE)
    \/ \E i \in 1..MaxPending : ReadDone(i)

SpecCorrupt == InitTailing /\ [][NextCorrupt]_vars

----------------------------------------------------------------------------
(* Truncation and rotation of the tracked file *)

NextRotate ==
    \/ AppendBytes("A", GoodLines, WholeLines)
    \/ \E n \in LineStarts(file["A"]) : Truncate("A", n)
    \/ checkForChanges(FALSE)
    \/ \E i \in 1..MaxPending : ReadDone(i)

SpecRotate == InitTailing /\ [][NextRotate]_vars

----------------------------------------------------------------------------
(* Failing file reads *)

NextFault ==
    \/ AppendBytes("A", GoodLines, WholeLines)
    \/ \E fails \in BOOLEAN : checkForChanges(fails)
    \/ ReadDone(1)
    \/ ReadFailed(1)

SpecFault == InitTailing /\ [][NextFault]_vars

----------------------------------------------------------------------------
(* Several subscribers, one of which raises *)

InitFan ==
    /\ file = NoFiles
    /\ wpend = NoFiles
    /\ nlines = 0
    /\ gen = [s \in Sessions |-> 0]
    /\ nfaults = 0
    /\ lastSize = 0
    /\ interval = TRUE
    /\ subscribers = <<>>
    /\ currentSessionId = "A"
    /\ pending = <<>>
    /\ received = [c \in Callbacks |-> <<>>]
    /\ prior = [sid |-> "A", gen |-> 0, n |-> 0, op |-> "setSession"]
    /\ OuterIdle

NextFan ==
    \/ \E c \in Callbacks : subscribe(c)
    \/ \E c \in Callbacks : unsubscribe(c)
    \/ AppendBytes("A", GoodLines, WholeLines)
    \/ checkForChanges(FALSE)
    \/ \E i \in 1..MaxPending : ReadDone(i)

SpecFan == InitFan /\ [][NextFan]_vars

----------------------------------------------------------------------------
(* The snapshot query *)

\* getAllEntries reading from lastSize on instead of from byte 0.
AllEntriesTail(sid, fails) ==
    IF sid = NoSession \/ fails THEN <<>>
    ELSE Vals(parseLines(SubSeq(file[sid], lastSize + 1, Len(file[sid]))))

\* What getAllEntries() returns: [] without a session, [] for a file of
\* size 0 (an absent file has size 0), [] when reading raises (fails), else
\* parseLines of the whole content.
AllEntries(sid, fails) ==
    IF sid = NoSession THEN <<>>
    ELSE IF fails THEN <<>>
    ELSE IF Len(file[sid]) = 0 THEN <<>>
    ELSE Vals(parseLines(file[sid]))

\* raised: the call ended with an exception instead of a value.
Returned(op, value) == [op |-> op, raised |-> FALSE, value |-> value]
Raised(op) == [op |-> op, raised |-> TRUE, value |-> <<>>]

getAllEntries(fails) ==
    /\ result' = Returned("getAllEntries",
                          AllEntries(currentSessionId, fails))
    /\ UNCHANGED <<envVars, nfaults, watcherVars, pending, received, prior,
                   dir, envSession, other,
                   streams, toolVars>>

NextSnapshot ==
    \/ start
    \/ stop
    \/ \E sid \in Sessions : setSession(sid)
    \/ AppendBytes("A", AllLines, LateNewline)
    \/ \E fails \in BOOLEAN : getAllEntries(fails)

SpecSnapshot == Init /\ [][NextSnapshot]_vars

----------------------------------------------------------------------------
(* The offset over session switches, restarts and truncation *)

NextOffset ==
    \/ start
    \/ stop
    \/ \E sid \in Sessions : setSession(sid)
    \/ AppendBytes("A", GoodLines, WholeLines)
    \/ \E n \in LineStarts(file["A"]) : Truncate("A", n)
    \/ checkForChanges(FALSE)
    \/ ReadDone(1)

SpecOffset == Init /\ [][NextOffset]_vars

----------------------------------------------------------------------------
(* Stopping and restarting the watcher of one session *)

NextLifecycle ==
    \/ start
    \/ stop
    \/ subscribe("c1")
    \/ unsubscribe("c1")
    \/ setSession("A")
    \/ AppendBytes("A", GoodLines, WholeLines)
    \/ checkForChanges(FALSE)
    \/ \E i \in 1..MaxPending : ReadDone(i)

SpecLifecycle == Init /\ [][NextLifecycle]_vars

----------------------------------------------------------------------------
(* The session listing *)

\* File names of the log directory: a base name and an extension.
\* f.endsWith('.txt') holds for the extension ".txt"; '.gitkeep' does not
\* end with '.txt'.
TxtNames == {[id |-> "A", ext |-> ".txt"], [id |-> "B", ext |-> ".txt"],
             [id |-> "C", ext |-> ".txt"]}
OtherNames == {[id |-> "", ext |-> ".gitkeep"]}
FileNames == TxtNames \cup OtherNames

IsSessionFile(f) == f.name.ext = ".txt"

\* String.prototype.trim(): the content without the white space (spaces,
\* newlines) at its two ends.
Trim(content) ==
    LET ink == {i \in 1..Len(content) : content[i] \notin {SP, NL}}
    IN  IF ink = {} THEN <<>>
        ELSE SubSeq(content,
                    CHOOSE i \in ink : \A j \in ink : i <= j,
                    CHOOSE i \in ink : \A j \in ink : j <= i)

\* filter(Boolean) keeps the pieces that are not the empty string.
Truthy(l) == l.text # <<>>

\* content.trim().split('\n').filter(Boolean)
ListedLines(content) == SelectSeq(split(Trim(content)), Truthy)

\* The key "timestamp".
TS == <<QUOTE, "t", QUOTE>>

\* parsed.timestamp ?? '' for a decoded value: the member named timestamp
\* of an object, '' when the value has none.  A timestamp that is a string
\* is given by its characters; one that is not a string by its text behind
\* a mark.
Timestamp(val) ==
    IF Len(val) > 2 /\ val[1] = "{"
    THEN LET k == FindQuote(val, 3)
             v == SubSeq(val, k + 2, Len(val) - 1)
         IN  IF SubSeq(val, 2, k) # TS THEN <<>>
             ELSE IF v[1] = QUOTE THEN SubSeq(v, 2, Len(v) - 1)
             ELSE <<"#">> \o v
    ELSE <<>>

\* The try block of listSessions: both lines are decoded before either
\* timestamp is assigned, so that one line that does not decode leaves both
\* at ''.
Stamps(lines) ==
    IF lines = <<>> THEN [first |-> <<>>, last |-> <<>>]
    ELSE LET f == JSONparse(lines[1].text)
             l == JSONparse(lines[Len(lines)].text)
         IN  IF f.ok /\ l.ok
             THEN [first |-> Timestamp(f.val), last |-> Timestamp(l.val)]
             ELSE [first |-> <<>>, last |-> <<>>]

\* The callback of files.map: the SessionInfo of one file.
SessionInfo(f) ==
    LET lines == ListedLines(f.text)
    IN  [session_id |-> f.name.id,
         first_entry |-> Stamps(lines).first,
         last_entry |-> Stamps(lines).last,
         entry_count |-> Len(lines),
         size_bytes |-> Len(f.text)]

DigitRank == [d \in Digits |-> IF d = "1" THEN 1 ELSE 2]

\* a.localeCompare(b) for strings of digits: "lt", "eq" or "gt".
RECURSIVE localeCompare(_, _)
localeCompare(a, b) ==
    IF a = <<>> THEN (IF b = <<>> THEN "eq" ELSE "lt")
    ELSE IF b = <<>> THEN "gt"
    ELSE IF DigitRank[Head(a)] < DigitRank[Head(b)] THEN "lt"
    ELSE IF DigitRank[Head(a)] > DigitRank[Head(b)] THEN "gt"
    ELSE localeCompare(Tail(a), Tail(b))

\* A comparator that puts the least recent session first.
OldestFirst(a, b) == localeCompare(a.last_entry, b.last_entry)

\* The comparator of the sort: b.last_entry.localeCompare(a.last_entry).
RecentFirst(a, b) == localeCompare(b.last_entry, a.last_entry)

\* Array.prototype.sort is stable: x goes behind every element that the
\* comparator does not put after it.
RECURSIVE InsertSorted(_, _)
InsertSorted(x, sorted) ==
    IF sorted = <<>> THEN <<x>>
    ELSE IF RecentFirst(x, Head(sorted)) = "lt"
    THEN <<x>> \o sorted
    ELSE <<Head(sorted)>> \o InsertSorted(x, Tail(sorted))

RECURSIVE SortFrom(_, _)
SortFrom(rest, sorted) ==
    IF rest = <<>> THEN sorted
    ELSE SortFrom(Tail(rest), InsertSorted(Head(rest), sorted))

sort(infos) == SortFrom(infos, <<>>)

\* statSync or readFileSync of a file that cannot be read throws, and
\* nothing in listSessions catches it.
Unreadable(f) == ~f.ok

\* What listSessions() does with the directory d.
SessionList(d) ==
    LET files == SelectSeq(d.files, IsSessionFile)
    IN  IF ~d.exists THEN Returned("listSessions", <<>>)
        ELSE IF SelectSeq(files, Unreadable) # <<>>
        THEN Raised("listSessions")
        ELSE Returned("listSessions",
                      sort([i \in 1..Len(files) |-> SessionInfo(files[i])]))

\* LogFileWatcher.listSessions()
listSessions ==
    /\ result' = SessionList(dir)
    /\ UNCHANGED <<envVars, nfaults, watcherVars, pending, received,
                   prior, dir, envSession, other,
                   streams, toolVars>>

\* Records with a timestamp, as the hooks log them.
T1 == <<"{">> \o TS \o <<":", QUOTE, "1", QUOTE, "}">>
T2 == <<"{">> \o TS \o <<":", QUOTE, "2", QUOTE, "}">>
T12 == <<"{">> \o TS \o <<":", QUOTE, "1", "2", QUOTE, "}">>
Blank == <<SP>>

MaxFiles == 3        \* files in the log directory
MaxFileLines == 4    \* lines of a listed file

SeqsUpTo(S, n) == UNION {[1..k -> S] : k \in 0..n}

\* The file made of the given lines, each followed by a newline.
RECURSIVE Join(_)
Join(ls) == IF ls = <<>> THEN <<>> ELSE Append(Head(ls), NL) \o Join(Tail(ls))

\* Directories whose files hold at most one line.
ShortTexts == {<<>>} \cup {Join(<<l>>) : l \in {T1, T2, T12}}

Distinct(ns) == \A i, j \in 1..Len(ns) : ns[i] = ns[j] => i = j

Directories(Names, Texts, Oks) ==
    UNION {
      {[exists |-> TRUE,
        files |-> [i \in 1..k |->
                     [name |-> ns[i], text |-> ts[i], ok |-> os[i]]]] :
          ns \in {n \in [1..k -> Names] : Distinct(n)},
          ts \in [1..k -> Texts],
          os \in [1..k -> Oks]} :
      k \in 0..Min(MaxFiles, Cardinality(Names))}

\* A watcher just constructed, beside a log directory.
InitBeside(d) ==
    /\ file = NoFiles
    /\ wpend = NoFiles
    /\ nlines = 0
    /\ gen = [s \in Sessions |-> 0]
    /\ nfaults = 0
    /\ lastSize = 0
    /\ interval = FALSE
    /\ subscribers = <<>>
    /\ currentSessionId = NoSession
    /\ pending = <<>>
    /\ received = [c \in Callbacks |-> <<>>]
    /\ prior = Attach(NoSession, 0, "new")
    /\ dir = d
    /\ result = NoResult
    /\ envSession = NoSession
    /\ other = NewWatcher
    /\ streams = NoStreams
    /\ ToolsIdle

InitList ==
    \E d \in {NoDir} \cup Directories(FileNames, ShortTexts, BOOLEAN) :
        InitBeside(d)

NextList ==
    \/ listSessions
    \/ \E fails \in BOOLEAN : getAllEntries(fails)

SpecList == InitList /\ [][NextList]_vars

\* One session file of up to MaxFileLines lines, among them lines that do
\* not decode, lines of white space and empty lines, with or without the
\* newline of its last line.
LongTexts ==
    LET whole == {Join(ls) :
                    ls \in SeqsUpTo({T1, T2, Bad, Blank, <<>>}, MaxFileLines)}
    IN  whole \cup {SubSeq(t, 1, Len(t) - 1) : t \in whole \ {<<>>}}

InitIndex ==
    \E d \in Directories({[id |-> "A", ext |-> ".txt"]}, LongTexts, {TRUE}) :
        InitBeside(d)

NextIndex == listSessions

SpecIndex == InitIndex /\ [][NextIndex]_vars

----------------------------------------------------------------------------
(* The viewer server: one watcher behind the HTTP routes *)

\* The ?session= parameter of a request; NoSession when it is absent.
Queries == Sessions \cup {NoSession}

\* The log directory as the session files make it up.
StoreDir ==
    [exists |-> TRUE,
     files |-> << [name |-> [id |-> "A", ext |-> ".txt"],
                   text |-> file["A"], ok |-> TRUE],
                  [name |-> [id |-> "B", ext |-> ".txt"],
                   text |-> file["B"], ok |-> TRUE] >>]

\* const session = url.searchParams.get("session") || currentSessionId
Requested(q) == IF q # NoSession THEN q ELSE envSession

\* if (session && session !== watcher.getCurrentSessionId())
\*     watcher.setSession(session)
SwitchTo(session) ==
    IF session # NoSession /\ session # currentSessionId
    THEN /\ currentSessionId' = session
         /\ lastSize' = getFileSize(session, FALSE)
         /\ prior' = Attach(session, getFileSize(session, FALSE),
                            "setSession")
    ELSE UNCHANGED <<currentSessionId, lastSize, prior>>

\* The session the watcher tracks once SwitchTo(session) is done.
Tracked(session) ==
    IF session # NoSession THEN session ELSE currentSessionId

\* The entries of the "entries" event that opens a stream, each with the
\* place of the file it was decoded from.
SnapshotEntries(sid) ==
    IF sid = NoSession \/ Len(file[sid]) = 0 THEN <<>>
    ELSE EntriesOf([sid |-> sid, from |-> 0, to |-> Len(file[sid])])

\* GET /events: the switch, then handleSSE: the stream's start() sends the
\* snapshot and subscribes the connection's callback c.  received[c] is
\* what the stream of c carries: the entries of the snapshot, then the
\* entries of the "entry" events.
handleSSE(q, c) ==
    /\ ~streams[c].open
    /\ ~IsIn(c, subscribers)
    /\ SwitchTo(Requested(q))
    /\ result' = Returned("events",
                          AllEntries(Tracked(Requested(q)), FALSE))
    /\ received' = [received EXCEPT
                      ![c] = SnapshotEntries(Tracked(Requested(q)))]
    /\ subscribers' = Append(subscribers, c)
    /\ streams' = [streams EXCEPT
                     ![c] = [open |-> TRUE,
                             session |-> Tracked(Requested(q)),
                             heartbeat |-> TRUE]]
    /\ UNCHANGED <<envVars, nfaults, interval, pending, dir,
                   envSession, other, toolVars>>

\* cancel() that clears the heartbeat timer and leaves the callback
\* subscribed.
cancelKeep(c) ==
    /\ streams[c].open
    /\ streams' = [streams EXCEPT ![c].open = FALSE,
                                  ![c].heartbeat = FALSE]
    /\ UNCHANGED <<envVars, nfaults, watcherVars, pending, received, prior,
                   dir, result, envSession, other, toolVars>>

\* The stream's cancel(): the client of callback c has disconnected; the
\* heartbeat timer is cleared and the callback unsubscribed.
cancel(c) ==
    /\ streams[c].open
    /\ subscribers' = NotCallback(c)
    /\ streams' = [streams EXCEPT ![c].open = FALSE,
                                  ![c].heartbeat = FALSE]
    /\ UNCHANGED <<envVars, nfaults, lastSize, interval, currentSessionId,
                   pending, received, prior, dir, result, envSession,
                   other, toolVars>>

\* GET /api/entries
handleEntries(q) ==
    /\ SwitchTo(Requested(q))
    /\ result' = Returned("entries",
                          AllEntries(Tracked(Requested(q)), FALSE))
    /\ UNCHANGED <<envVars, nfaults, interval, subscribers, pending,
                   received, dir, envSession, other,
                   streams, toolVars>>

\* GET /api/sessions: the listing and the module constant currentSessionId.
handleSessionsList ==
    /\ result' =
         IF SessionList(StoreDir).raised THEN Raised("sessions")
         ELSE Returned("sessions",
                       << [sessions |-> SessionList(StoreDir).value,
                           current_session |-> envSession] >>)
    /\ UNCHANGED <<envVars, nfaults, watcherVars, pending, received, prior,
                   dir, envSession, other,
                   streams, toolVars>>

\* The module body of the server: new LogFileWatcher(), watcher.start(),
\* then watcher.setSession(env) when the environment names a session.
InitServer ==
    /\ file = [NoFiles EXCEPT !["B"] = Append(L1, NL)]
    /\ wpend = NoFiles
    /\ nlines = 0
    /\ gen = [s \in Sessions |-> 0]
    /\ nfaults = 0
    /\ interval = TRUE
    /\ subscribers = <<>>
    /\ pending = <<>>
    /\ received = [c \in Callbacks |-> <<>>]
    /\ envSession \in Queries
    /\ currentSessionId = envSession
    /\ lastSize = getFileSize(envSession, FALSE)
    /\ prior = Attach(envSession, getFileSize(envSession, FALSE),
                      IF envSession = NoSession THEN "start"
                      ELSE "setSession")
    /\ dir = NoDir
    /\ result = NoResult
    /\ other = NewWatcher
    /\ streams = NoStreams
    /\ ToolsIdle

NextServer ==
    \/ \E q \in Queries : handleSSE(q, "c1")
    \/ cancel("c1")
    \/ \E q \in Queries : handleEntries(q)
    \/ handleSessionsList
    \/ AppendBytes("A", GoodLines, WholeLines)
    \/ checkForChanges(FALSE)
    \/ ReadDone(1)

SpecServer == InitServer /\ [][NextServer]_vars

----------------------------------------------------------------------------
(* A second watcher instance on the same session file *)

\* The second instance (of another viewer process) runs on session A with
\* one subscriber; other holds its lastSize, its reads in flight and what
\* its subscriber was given.

\* A tick of the second instance, were lastSize one offset shared by the
\* instances.
checkForChangesShared ==
    LET currentSize == Len(file["A"])
    IN  /\ IF currentSize > lastSize
           THEN /\ Len(other.pending) < MaxPending
                /\ other' = [other EXCEPT
                               !.pending = Append(MarkLate(@),
                                                  [sid |-> "A",
                                                   from |-> lastSize,
                                                   to |-> currentSize,
                                                   late |-> FALSE])]
                /\ lastSize' = currentSize
           ELSE /\ other' = [other EXCEPT !.pending = MarkLate(@)]
                /\ lastSize' = ShrunkSize(currentSize)
        /\ UNCHANGED <<envVars, nfaults, interval, subscribers,
                       currentSessionId, pending, received, prior, dir,
                       result, envSession,
                   streams, toolVars>>

\* checkForChanges() of the second instance: the same method, on the
\* fields of that instance.
checkForChangesOther ==
    LET currentSize == Len(file["A"])
    IN  /\ IF currentSize > other.lastSize
           THEN /\ Len(other.pending) < MaxPending
                /\ other' = [other EXCEPT
                               !.pending = Append(MarkLate(@),
                                                  [sid |-> "A",
                                                   from |-> other.lastSize,
                                                   to |-> currentSize,
                                                   late |-> FALSE]),
                               !.lastSize = currentSize]
           ELSE other' = [other EXCEPT
                            !.pending = MarkLate(@),
                            !.lastSize = IF currentSize < @
                                         THEN currentSize ELSE @]
        /\ UNCHANGED <<envVars, nfaults, watcherVars, pending, received,
                       prior, dir, result, envSession,
                   streams, toolVars>>

\* The then-callback of a read of the second instance.
ReadDoneOther(i) ==
    /\ i \in 1..Len(other.pending)
    /\ other' = [other EXCEPT
                   !.received = @ \o EntriesOf(other.pending[i]),
                   !.pending = Remove(@, i)]
    /\ UNCHANGED <<envVars, nfaults, watcherVars, pending, received,
                   prior, dir, result, envSession,
                   streams, toolVars>>

NextTwin ==
    \/ AppendBytes("A", GoodLines, WholeLines)
    \/ checkForChanges(FALSE)
    \/ ReadDone(1)
    \/ checkForChangesOther
    \/ ReadDoneOther(1)

SpecTwin == InitTailing /\ [][NextTwin]_vars

----------------------------------------------------------------------------
(* SSE connections coming and going *)

NextStreams ==
    \/ \E c \in Callbacks : handleSSE(NoSession, c)
    \/ \E c \in Callbacks : cancel(c)
    \/ AppendBytes("A", {L1}, WholeLines)
    \/ checkForChanges(FALSE)
    \/ ReadDone(1)

SpecStreams == InitServer /\ [][NextStreams]_vars

----------------------------------------------------------------------------
(* Stopping and restarting while the log grows only during the pauses *)

\* A writer appends a whole record while the poll timer is stopped.
AppendWhileStopped ==
    /\ ~interval
    /\ AppendBytes("A", GoodLines, WholeLines)

NextRestart ==
    \/ start
    \/ stop
    \/ AppendWhileStopped
    \/ \E fails \in BOOLEAN : checkForChanges(fails)
    \/ ReadDone(1)

SpecRestart == InitTailing /\ [][NextRestart]_vars

----------------------------------------------------------------------------
(* atom-trail: the gate validators *)

\* !!v
ToBoolean(v) ==
    CASE v.type = "undefined" -> FALSE
      [] v.type = "boolean" -> v.b
      [] v.type = "number" -> v.n # 0
      [] v.type = "string" -> v.length # 0
      [] OTHER -> TRUE

\* v.name for a v that is neither undefined nor null.
Get(v, name) ==
    CASE v.type = "object" ->
           IF name \in DOMAIN v.props THEN v.props[name] ELSE Undefined
      [] v.type \in {"array", "string"} /\ name = "length" -> Num(v.length)
      [] OTHER -> Undefined

\* v?.name
OptGet(v, name) == IF v.type = "undefined" THEN Undefined ELSE Get(v, name)

isArray(v) == v.type = "array"

Check(name, ok) == [name |-> name, ok |-> ok]

\* Object.entries(checks).filter(([_, v]) => !v).map(([k]) => k)
RECURSIVE FailedNames(_)
FailedNames(checks) ==
    IF checks = <<>> THEN <<>>
    ELSE (IF Head(checks).ok THEN <<>> ELSE << Head(checks).name >>)
         \o FailedNames(Tail(checks))

GateResult(gate, from, to, checks) ==
    [kind |-> "GateResult", gate |-> gate, from |-> from, to |-> to,
     passed |-> Len(FailedNames(checks)) = 0, checks |-> checks,
     failed_checks |-> FailedNames(checks)]

Gates == {"kenl-to-awi", "awi-to-atom", "atom-to-saif", "saif-to-spiral"}
Phases == {"KENL", "AWI", "ATOM", "SAIF"}

kenl_to_awi(ctx) ==
    GateResult("kenl-to-awi", "KENL", "AWI",
      << Check("has_knowledge_base", ToBoolean(Get(ctx, "knowledge"))),
         Check("has_intent", ToBoolean(Get(ctx, "intent"))),
         Check("intent_has_scope",
               ToBoolean(OptGet(Get(ctx, "intent"), "scope"))),
         Check("intent_has_justification",
               ToBoolean(OptGet(Get(ctx, "intent"), "justification"))) >>)

awi_to_atom(ctx) ==
    GateResult("awi-to-atom", "AWI", "ATOM",
      << Check("has_intent_doc", ToBoolean(Get(ctx, "intent_doc"))),
         Check("has_execution_plan", ToBoolean(Get(ctx, "plan"))),
         Check("plan_is_atomic", isArray(OptGet(Get(ctx, "plan"), "steps"))),
         Check("has_rollback",
               ToBoolean(OptGet(Get(ctx, "plan"), "rollback"))) >>)

atom_to_saif(ctx) ==
    GateResult("atom-to-saif", "ATOM", "SAIF",
      << Check("execution_complete", ToBoolean(Get(ctx, "completed"))),
         Check("tests_pass", Get(ctx, "tests_passed") # Bool(FALSE)),
         Check("no_regressions",
               OptGet(Get(ctx, "regressions"), "length") = Num(0)),
         Check("artifacts_verified", ToBoolean(Get(ctx, "verified"))) >>)

saif_to_spiral(ctx) ==
    GateResult("saif-to-spiral", "SAIF", "KENL",
      << Check("lesson_documented", ToBoolean(Get(ctx, "lesson"))),
         Check("knowledge_updated", ToBoolean(Get(ctx, "knowledge_updated"))),
         Check("ready_for_next_cycle", Get(ctx, "ready") # Bool(FALSE)) >>)

\* gateValidators[gate]: one of the four own properties, else what the
\* object literal inherits from Object.prototype under that name (a
\* function such as toString, the prototype itself for __proto__), else
\* undefined.
InheritedFunctions == {"toString"}
InheritedObjects == {"__proto__"}

gateValidators(gate) ==
    CASE gate \in Gates -> "validator"
      [] gate \in InheritedFunctions -> "function"
      [] gate \in InheritedObjects -> "object"
      [] OTHER -> "undefined"

validator(gate, ctx) ==
    CASE gate = "kenl-to-awi" -> kenl_to_awi(ctx)
      [] gate = "awi-to-atom" -> awi_to_atom(ctx)
      [] gate = "atom-to-saif" -> atom_to_saif(ctx)
      [] gate = "saif-to-spiral" -> saif_to_spiral(ctx)

\* validateGate(gate, context).  kind: "GateResult" when a GateResult
\* object is returned, "string" when the call returns the string an
\* inherited function produces, "raised" when calling a value that is not a
\* function raises TypeError.
validateGate(gate, ctx) ==
    CASE gateValidators(gate) = "undefined" ->
           [kind |-> "GateResult", gate |-> gate, from |-> "KENL",
            to |-> "AWI", passed |-> FALSE, checks |-> <<>>,
            failed_checks |-> << "unknown_gate" >>]
      [] gateValidators(gate) = "validator" -> validator(gate, ctx)
      [] gateValidators(gate) = "function" ->
           [NoGateResult EXCEPT !.kind = "string", !.gate = gate]
      [] gateValidators(gate) = "object" ->
           [NoGateResult EXCEPT !.kind = "raised", !.gate = gate]

\* `${from}-${to}`
PairKey(from, to) == <<from, "-", to>>

\* gateMap with a shortcut from KENL to ATOM.
gateMapSkipping ==
    [k \in {PairKey("KENL", "AWI"), PairKey("AWI", "ATOM"),
            PairKey("ATOM", "SAIF"), PairKey("SAIF", "KENL"),
            PairKey("KENL", "ATOM")} |->
       CASE k = PairKey("KENL", "AWI") -> "kenl-to-awi"
         [] k = PairKey("AWI", "ATOM") -> "awi-to-atom"
         [] k = PairKey("ATOM", "SAIF") -> "atom-to-saif"
         [] k = PairKey("SAIF", "KENL") -> "saif-to-spiral"
         [] k = PairKey("KENL", "ATOM") -> "awi-to-atom"]

gateMap ==
    [k \in {PairKey("KENL", "AWI"), PairKey("AWI", "ATOM"),
            PairKey("ATOM", "SAIF"), PairKey("SAIF", "KENL")} |->
       CASE k = PairKey("KENL", "AWI") -> "kenl-to-awi"
         [] k = PairKey("AWI", "ATOM") -> "awi-to-atom"
         [] k = PairKey("ATOM", "SAIF") -> "atom-to-saif"
         [] k = PairKey("SAIF", "KENL") -> "saif-to-spiral"]

isTransitionReady(from, to, ctx) ==
    IF PairKey(from, to) \notin DOMAIN gateMap THEN FALSE
    ELSE validateGate(gateMap[PairKey(from, to)], ctx).passed

\* The context objects handed in: for each gate, the properties it looks
\* at, each absent (undefined), falsy or truthy in the ways its check tells
\* apart.
Objects(names, values) == {Obj(props) : props \in [names -> values]}

Contexts ==
    LET text == Str(1)
        intents == {Undefined, text}
                     \cup Objects({"scope", "justification"},
                                  {Undefined, text})
        plans == {Undefined}
                   \cup {Obj([steps |-> st, rollback |-> rb]) :
                           st \in {Undefined, Arr(0), Arr(1), text},
                           rb \in {Undefined, Bool(FALSE), text}}
    IN       {Obj([knowledge |-> k, intent |-> i]) :
                k \in {Undefined, Str(0), Obj(NoProps)}, i \in intents}
       \cup {Obj([intent_doc |-> d, plan |-> pl]) :
                d \in {Undefined, text}, pl \in plans}
       \cup {Obj([completed |-> c, tests_passed |-> t,
                   regressions |-> r, verified |-> v]) :
                c \in {Undefined, Bool(TRUE)},
                t \in {Undefined, Bool(TRUE), Bool(FALSE)},
                r \in {Undefined, Arr(0), Arr(1), Str(0)},
                v \in {Undefined, Bool(FALSE), Bool(TRUE)}}
       \cup {Obj([lesson |-> l, knowledge_updated |-> u, ready |-> r]) :
                l \in {Undefined, text},
                u \in {Undefined, Bool(TRUE)},
                r \in {Undefined, Bool(TRUE), Bool(FALSE)}}

\* The gate names a caller passes: the four gates, a name that is no
\* property of any object, and two names every object inherits.
GateNames == Gates \cup {"spiral-to-kenl"} \cup InheritedFunctions
               \cup InheritedObjects

InitGates ==
    /\ file = NoFiles
    /\ wpend = NoFiles
    /\ nlines = 0
    /\ gen = [s \in Sessions |-> 0]
    /\ nfaults = 0
    /\ lastSize = 0
    /\ interval = FALSE
    /\ subscribers = <<>>
    /\ currentSessionId = NoSession
    /\ pending = <<>>
    /\ received = [c \in Callbacks |-> <<>>]
    /\ prior = Attach(NoSession, 0, "new")
    /\ dir = NoDir
    /\ result = NoResult
    /\ envSession = NoSession
    /\ other = NewWatcher
    /\ streams = NoStreams
    /\ context \in Contexts
    /\ gateResult = NoGateResult
    /\ today = Day1
    /\ counters = NoCounters
    /\ tags = <<>>
    /\ counterFile = NoCounterFile
    /\ runs = [p \in Procs |-> NotRunning]
    /\ issued = <<>>
    /\ hooks = [h \in Hooks |-> NoHook]
    /\ viewers = <<>>

\* A call of validateGate(gate, context).
CallValidateGate(gate) ==
    /\ gateResult' = validateGate(gate, context)
    /\ UNCHANGED <<envVars, nfaults, watcherVars, pending, received, prior,
                   dir, result, envSession, other, streams,
                   context, today, counters, tags, counterFile, runs,
                   issued, hooks, viewers>>

\* A call of isTransitionReady(from, to, context).
CallIsTransitionReady(from, to) ==
    /\ gateResult' =
         [NoGateResult EXCEPT !.kind = "ready", !.from = from, !.to = to,
                              !.passed = isTransitionReady(from, to, context)]
    /\ UNCHANGED <<envVars, nfaults, watcherVars, pending, received, prior,
                   dir, result, envSession, other, streams,
                   context, today, counters, tags, counterFile, runs,
                   issued, hooks, viewers>>

NextGates ==
    \/ \E gate \in GateNames : CallValidateGate(gate)
    \/ \E from, to \in Phases : CallIsTransitionReady(from, to)

SpecGates == InitGates /\ [][NextGates]_vars

----------------------------------------------------------------------------
(* atom-trail: tags and the in-memory counters *)

MaxTags == 4         \* calls of generateAtomTag and createDecision

\* The watcher, the log store and the viewer server.
viewerVars == <<envVars, nfaults, watcherVars, pending, received, prior,
                dir, result, envSession, other, streams>>

FIX == <<"F", "I", "X">>
DOC == <<"D", "O", "C">>
AtomTypes == {FIX, DOC}

Descriptions == { <<"F", "i", "x", " ", "!", "a", "1">>,
                  <<" ", "a", "-", "-", "X", ".">> }

\* counters.get(key) || 0
MapGet(map, key) == IF key \in DOMAIN map THEN map[key] ELSE 0

\* A counters.set(key, value) that stores nothing.
MapSetDropped(map, key, value) == map

\* counters.set(key, value)
MapSet(map, key, value) ==
    [k \in DOMAIN map \cup {key} |-> IF k = key THEN value ELSE map[k]]

\* `${type}-${date}`
CounterKey(type, date) == type \o <<"-">> \o date

DecimalDigits == <<"0", "1", "2", "3", "4", "5", "6", "7", "8", "9">>

\* n.toString() for a natural number
RECURSIVE toString(_)
toString(n) ==
    IF n < 10 THEN << DecimalDigits[n + 1] >>
    ELSE toString(n \div 10) \o << DecimalDigits[(n % 10) + 1] >>

\* s.padStart(width, '0')
RECURSIVE padStart(_, _)
padStart(str, width) ==
    IF Len(str) >= width THEN str ELSE padStart(<<"0">> \o str, width)

\* toLowerCase(), on the capital letters the descriptions use.
toLowerCase(ch) ==
    CASE ch = "F" -> "f"
      [] ch = "X" -> "x"
      [] OTHER -> ch

SlugChars ==
    {"a", "b", "c", "d", "e", "f", "g", "h", "i", "j", "k", "l", "m", "n",
     "o", "p", "q", "r", "s", "t", "u", "v", "w", "x", "y", "z",
     "0", "1", "2", "3", "4", "5", "6", "7", "8", "9"}

\* .replace(/[^a-z0-9]+/g, '-')
RECURSIVE Hyphenate(_, _)
Hyphenate(str, inRun) ==
    IF str = <<>> THEN <<>>
    ELSE IF Head(str) \in SlugChars
    THEN << Head(str) >> \o Hyphenate(Tail(str), FALSE)
    ELSE (IF inRun THEN <<>> ELSE <<"-">>) \o Hyphenate(Tail(str), TRUE)

\* .replace(/^-|-$/g, '')
StripHyphens(str) ==
    LET a == IF str # <<>> /\ Head(str) = "-" THEN 2 ELSE 1
        b == IF Len(str) >= a /\ str[Len(str)] = "-"
             THEN Len(str) - 1 ELSE Len(str)
    IN  SubSeq(str, a, b)

Slug(description) ==
    LET lower == [i \in 1..Len(description) |-> toLowerCase(description[i])]
        kept == StripHyphens(Hyphenate(lower, FALSE))
    IN  SubSeq(kept, 1, Min(50, Len(kept)))

\* ATOM-TYPE-YYYYMMDD-NNN-description, and its parts.
AtomTag(type, date, counter, description, by) ==
    [type |-> type, date |-> date, counter |-> padStart(toString(counter), 3),
     text |-> <<"A", "T", "O", "M", "-">> \o type \o <<"-">> \o date
                \o <<"-">> \o padStart(toString(counter), 3)
                \o <<"-">> \o Slug(description),
     by |-> by]

\* The body of generateAtomTag(type, description), called by `by`.
Tagged(type, description, by) ==
    LET key == CounterKey(type, today)
        counter == MapGet(counters, key) + 1
    IN  /\ Len(tags) < MaxTags
        /\ counters' = MapSet(counters, key, counter)
        /\ tags' = Append(tags, AtomTag(type, today, counter, description, by))
        /\ UNCHANGED <<viewerVars, context, gateResult, today, counterFile,
                       runs, issued, hooks, viewers>>

generateAtomTag(type, description) ==
    Tagged(type, description, "generateAtomTag")

\* createDecision(type, description, files, tags): the decision carries
\* the tag of the one generateAtomTag call it makes.
createDecision(type, description) ==
    Tagged(type, description, "createDecision")

\* Midnight (UTC) passes.
NextDay ==
    /\ today = Day1
    /\ today' = Day2
    /\ UNCHANGED <<viewerVars, context, gateResult, counters, tags,
                   counterFile, runs, issued, hooks, viewers>>

NextTags ==
    \/ \E type \in AtomTypes : \E d \in Descriptions :
         generateAtomTag(type, d)
    \/ \E type \in AtomTypes : \E d \in Descriptions :
         createDecision(type, d)
    \/ NextDay

SpecTags == Init /\ [][NextTags]_vars

----------------------------------------------------------------------------
(* The atom-tag script: invocations sharing one counter file *)

MaxRuns == 4         \* invocations of the script

\* parseInt(content.trim(), 10) || 0, for a content of decimal digits
RECURSIVE parseInt(_)
parseInt(str) ==
    IF str = <<>> THEN 0
    ELSE 10 * parseInt(SubSeq(str, 1, Len(str) - 1))
         + (CHOOSE d \in 0..9 : DecimalDigits[d + 1] = str[Len(str)])

scriptVars == <<viewerVars, context, gateResult, today, counters, tags,
                hooks, viewers>>

\* main() up to the first await of generateAtomTag (await ensureDirs()).
Invoke(p) ==
    /\ runs[p].pc = "idle"
    /\ Len(issued) + Cardinality({q \in Procs : runs[q].pc # "idle"})
         < MaxRuns
    /\ runs' = [runs EXCEPT ![p].pc = "ensured"]
    /\ UNCHANGED <<scriptVars, counterFile, issued>>

\* getNextCounter up to its first await: existsSync(counterFile), then
\* readFile or writeFile('1') is started.
getNextCounter(p) ==
    /\ runs[p].pc = "ensured"
    /\ runs' = [runs EXCEPT ![p].pc = IF counterFile.exists THEN "reading"
                                      ELSE "creating"]
    /\ UNCHANGED <<scriptVars, counterFile, issued>>

\* readFile settles: count is parsed and writeFile(String(count + 1)) is
\* started.
ReadSettles(p) ==
    /\ runs[p].pc = "reading"
    /\ runs' = [runs EXCEPT ![p].pc = "writing",
                            ![p].count = parseInt(counterFile.content)]
    /\ UNCHANGED <<scriptVars, counterFile, issued>>

\* writeFile settles and getNextCounter returns count + 1.
WriteSettles(p) ==
    /\ runs[p].pc = "writing"
    /\ counterFile' = [exists |-> TRUE,
                       content |-> toString(runs[p].count + 1)]
    /\ issued' = Append(issued, runs[p].count + 1)
    /\ runs' = [runs EXCEPT ![p] = NotRunning]
    /\ UNCHANGED scriptVars

\* writeFile(counterFile, '1') settles and getNextCounter returns 1.
CreateSettles(p) ==
    /\ runs[p].pc = "creating"
    /\ counterFile' = [exists |-> TRUE, content |-> <<"1">>]
    /\ issued' = Append(issued, 1)
    /\ runs' = [runs EXCEPT ![p] = NotRunning]
    /\ UNCHANGED scriptVars

NextScript ==
    \/ \E p \in Procs : Invoke(p)
    \/ \E p \in Procs : getNextCounter(p)
    \/ \E p \in Procs : ReadSettles(p)
    \/ \E p \in Procs : WriteSettles(p)
    \/ \E p \in Procs : CreateSettles(p)

SpecScript == Init /\ [][NextScript]_vars

----------------------------------------------------------------------------
(* The SessionStart hook *)

Sources == {"startup", "resume", "clear", "compact"}

hookVars == <<viewerVars, context, gateResult, today, counters, tags,
              counterFile, runs, issued>>

\* A hook that starts the viewer whatever the source.
StartsViewerAlways(source) == TRUE

\* input.source === "startup"
StartsViewer(source) == source = "startup"

\* const input = await readInput()
readInput(h, source, session) ==
    /\ hooks[h].pc = "idle"
    /\ hooks' = [hooks EXCEPT ![h].pc = "read", ![h].source = source,
                              ![h].session = session]
    /\ UNCHANGED <<hookVars, viewers>>

\* await log("SessionStart", ...): the record reaches the logging sink.
logSessionStart(h) ==
    /\ hooks[h].pc = "read"
    /\ hooks' = [hooks EXCEPT ![h].pc = "logged", ![h].logged = TRUE]
    /\ UNCHANGED <<hookVars, viewers>>

\* main() after the log: on startup the probe is sent, otherwise the
\* output is written.
AfterLog(h) ==
    /\ hooks[h].pc = "logged"
    /\ hooks' = IF StartsViewer(hooks[h].source)
                THEN [hooks EXCEPT ![h].pc = "probing"]
                ELSE [hooks EXCEPT ![h].pc = "done", ![h].written = TRUE]
    /\ UNCHANGED <<hookVars, viewers>>

\* isViewerRunning() settles with response.ok, or with false when fetch
\* raised or was aborted; without a viewer startViewerServer spawns one
\* (spawn may raise, which is caught); then the output is written.
AfterProbe(h, running, spawns) ==
    /\ hooks[h].pc = "probing"
    /\ hooks' = [hooks EXCEPT ![h].pc = "done", ![h].probed = TRUE,
                              ![h].viewerRunning = running,
                              ![h].spawned = IF ~running /\ spawns
                                             THEN 1 ELSE 0,
                              ![h].written = TRUE]
    /\ viewers' = IF ~running /\ spawns
                  THEN Append(viewers, hooks[h].session) ELSE viewers
    /\ UNCHANGED hookVars

NextHook ==
    \/ \E h \in Hooks : \E source \in Sources : \E session \in Sessions :
         readInput(h, source, session)
    \/ \E h \in Hooks : logSessionStart(h)
    \/ \E h \in Hooks : AfterLog(h)
    \/ \E h \in Hooks : \E running, spawns \in BOOLEAN :
         AfterProbe(h, running, spawns)

SpecHook == Init /\ [][NextHook]_vars

----------------------------------------------------------------------------
(* What the log store holds, read without the watcher *)

\* The complete (newline-terminated) lines of a file, each with the offset
\* of its first byte.
RECURSIVE LinesFrom(_, _, _)
LinesFrom(f, first, i) ==
    IF i > Len(f) THEN <<>>
    ELSE IF f[i] = NL
    THEN << [off |-> first - 1, text |-> SubSeq(f, first, i - 1)] >>
         \o LinesFrom(f, i + 1, i + 1)
    ELSE LinesFrom(f, first, i + 1)

CompleteLines(f) == LinesFrom(f, 1, 1)

\* The decodings of the complete lines of a file that parse, in file order.
RECURSIVE DecodeAll(_)
DecodeAll(ls) ==
    IF ls = <<>> THEN <<>>
    ELSE (IF JSONparse(Head(ls).text).ok
          THEN << JSONparse(Head(ls).text).val >> ELSE <<>>)
         \o DecodeAll(Tail(ls))

\* Nothing is in flight: the writer has finished its line, the watcher has
\* measured the whole file and every read has settled.
Quiet(sid) ==
    /\ wpend[sid] = <<>>
    /\ pending = <<>>
    /\ lastSize = Len(file[sid])

IsPrefix(a, b) == Len(a) <= Len(b) /\ a = SubSeq(b, 1, Len(a))

----------------------------------------------------------------------------
(* Claims *)

\* The lines a writer has appended to a file, the one whose last bytes are
\* still on their way included.
Appended(sid) == DecodeAll(CompleteLines(file[sid] \o wpend[sid]))

\* C1 (P1): under pure growth by well-formed, newline-terminated lines,
\* whatever the chunking of the appends relative to the poll ticks, the
\* entries delivered to the subscriber are the lines appended: always a
\* prefix of them in order, and all of them once nothing is in flight.
C1_NoLossNoDup ==
    /\ IsPrefix(Vals(received["c1"]), Appended("A"))
    /\ Quiet("A") => Vals(received["c1"]) = Appended("A")

\* The length of the part of a file that consists of complete lines.
CompleteLen(f) ==
    LET ls == CompleteLines(f)
    IN  IF ls = <<>> THEN 0
        ELSE ls[Len(ls)].off + Len(ls[Len(ls)].text) + 1

\* The entries of a log that were read from inside a given line.
EntriesFor(log, sid, l) ==
    {i \in 1..Len(log) : /\ log[i].sid = sid
                         /\ log[i].off >= l.off
                         /\ log[i].off <= l.off + Len(l.text)}

\* C2 (P2): no entry is emitted for a line as long as its newline has not
\* reached the file, and once the line is complete and has been polled
\* exactly one entry has been emitted for it.
C2_PartialLineSafety ==
    /\ \A i \in 1..Len(received["c1"]) :
         received["c1"][i].off < CompleteLen(file["A"])
    /\ Quiet("A") =>
         \A k \in 1..Len(CompleteLines(file["A"])) :
           Cardinality(EntriesFor(received["c1"], "A",
                                  CompleteLines(file["A"])[k])) = 1

\* C3: every entry delivered is the decoding of one whole line the writer
\* appended, found at that line's offset; never the decoding of a fragment
\* of a line.
C3_NoPartialRecord ==
    \A i \in 1..Len(received["c1"]) :
      \E k \in 1..Len(CompleteLines(file["A"] \o wpend["A"])) :
        LET l == CompleteLines(file["A"] \o wpend["A"])[k]
        IN  /\ l.off = received["c1"][i].off
            /\ JSONparse(l.text).ok
            /\ JSONparse(l.text).val = received["c1"][i].val

\* C4: whatever the operations and file changes, the entries a subscriber
\* has been given from one file (between two truncations of it) have
\* strictly increasing byte offsets: none twice, none out of file order.
C4_NoReorderNoDuplicate ==
    \A i \in 1..Len(received["c1"]) : \A j \in 1..Len(received["c1"]) :
      (/\ i < j
       /\ received["c1"][i].sid = received["c1"][j].sid
       /\ received["c1"][i].gen = received["c1"][j].gen)
      => received["c1"][i].off < received["c1"][j].off

\* The entries callback c is given in a step.
Fresh(c) == SubSeq(received'[c], Len(received[c]) + 1, Len(received'[c]))

\* C7 (P6): once setSession(B) has been called while B's file held N
\* bytes, no step gives a subscriber an entry read from those N bytes.
C7_SwitchNoReplay ==
    [][prior.op = "setSession" =>
         \A i \in 1..Len(Fresh("c1")) :
           ~(/\ Fresh("c1")[i].sid = prior.sid
             /\ Fresh("c1")[i].gen = prior.gen
             /\ Fresh("c1")[i].off < prior.n)]_vars

\* C9: the deliveries of poll tick N are over before poll tick N+1 begins:
\* no read started by a tick is still unsettled when a later tick runs.
C9_TickDeliveriesComplete ==
    \A i \in 1..Len(pending) : ~pending[i].late

\* The read whose settling is this step, if any.
Settles(i) == i \in 1..Len(pending) /\ pending' = Remove(pending, i)

\* A read range that begins at the start of a line and ends with a newline.
Aligned(r) ==
    /\ r.from \in LineStarts(file[r.sid])
    /\ r.to <= Len(file[r.sid])
    /\ file[r.sid][r.to] = NL

\* C5 (P3): a read whose byte range consists of whole lines gives the
\* subscriber exactly the decodings of the lines that parse, in file order,
\* whatever malformed lines lie between them; and the tick that starts a
\* read moves lastSize to the end of its range, so that no line of the
\* range is read again.
C5_CorruptLineTolerance ==
    [][/\ \A i \in 1..MaxPending :
            (Settles(i) /\ Aligned(pending[i])) =>
              Vals(Fresh("c1")) =
                DecodeAll(CompleteLines(SliceText(pending[i].sid,
                                                  pending[i].from,
                                                  pending[i].to)))
       /\ Len(pending') > Len(pending) =>
            /\ pending'[Len(pending')].from = lastSize
            /\ pending'[Len(pending')].to = lastSize'
      ]_vars

\* C5's case: a malformed line between two well-formed ones has been
\* polled, and the subscriber holds exactly the two well-formed entries.
C5_Witness ==
    /\ Quiet("A")
    /\ \E a \in GoodLines, b \in GoodLines :
         /\ file["A"] = Append(a, NL) \o Append(Bad, NL) \o Append(b, NL)
         /\ Vals(received["c1"]) = <<a, b>>

C8_ReadErrorIsNoChange ==
    /\ [][nfaults' > nfaults =>
            (lastSize' = lastSize /\ received' = received)]_vars
    /\ [](/\ IsPrefix(Vals(received["c1"]), Appended("A"))
          /\ Quiet("A") => Vals(received["c1"]) = Appended("A"))

\* C10: when a read settles, every subscribed callback is invoked with
\* every entry of the read, in order, also when a callback before it in the
\* set raises on each call; and lastSize, the subscriber set, the timer and
\* the session stay as they are.
C10_SubscriberErrorContained ==
    [][\A i \in 1..MaxPending :
         Settles(i) =>
           /\ \A c \in Callbacks :
                IsIn(c, subscribers) => Fresh(c) = EntriesOf(pending[i])
           /\ UNCHANGED watcherVars
      ]_vars

\* C10's case: the raising callback c2 stands before c1 in the subscriber
\* set, was invoked with an entry, and c1 was given that entry all the same.
C10_Witness ==
    /\ subscribers = <<"c2", "c1">>
    /\ \E i \in 1..Len(received["c2"]) : \E j \in 1..Len(received["c1"]) :
         received["c2"][i] = received["c1"][j]

\* Every line of a file: the complete ones and, when the file does not end
\* with a newline, the piece after the last newline.
EveryLine(f) ==
    CompleteLines(f) \o
    (IF CompleteLen(f) < Len(f)
     THEN << [off |-> CompleteLen(f),
              text |-> SubSeq(f, CompleteLen(f) + 1, Len(f))] >>
     ELSE <<>>)

\* C11 (P5): getAllEntries() returns the decodings of the lines of the
\* tracked file that parse, in file order, as the file is at the call,
\* whatever lastSize is and whether or not the timer runs, and leaves
\* lastSize and the subscriber set as they are.
C11_SnapshotIndependence ==
    [][getAllEntries(FALSE) =>
         /\ result'.value =
              (IF currentSessionId = NoSession THEN <<>>
               ELSE DecodeAll(EveryLine(file[currentSessionId])))
         /\ ~result'.raised
         /\ UNCHANGED <<lastSize, subscribers>>
      ]_vars

\* C11's case: the timer was never started, lastSize is at the end of a
\* file that holds a record, and the snapshot returned the record.
C11_Witness ==
    /\ ~interval
    /\ prior.op = "setSession"
    /\ currentSessionId # NoSession
    /\ lastSize > 0
    /\ lastSize = Len(file[currentSessionId])
    /\ result = Returned("getAllEntries",
                         DecodeAll(EveryLine(file[currentSessionId])))
    /\ result.value # <<>>

\* The entries a step delivers to callback c come after everything c was
\* given before from the same file.
InFileOrder(c) ==
    \A i \in 1..Len(Fresh(c)) : \A j \in 1..Len(received[c]) :
        (/\ received[c][j].sid = Fresh(c)[i].sid
         /\ received[c][j].gen = Fresh(c)[i].gen)
        => received[c][j].off < Fresh(c)[i].off

\* C12: a subscribed callback is invoked once with each entry of a read
\* that settles, the entries reach it in file order, a callback that is not
\* (or no longer) subscribed is not invoked, and subscribing or
\* unsubscribing one callback leaves the others subscribed as they were.
C12_SubscribeDelivery ==
    [][/\ \A i \in 1..MaxPending :
            Settles(i) =>
              \A c \in Callbacks :
                IsIn(c, subscribers) => Fresh(c) = EntriesOf(pending[i])
       /\ \A c \in Callbacks :
            /\ ~IsIn(c, subscribers) => received'[c] = received[c]
            /\ InFileOrder(c)
            /\ (subscribe(c) \/ unsubscribe(c)) =>
                 \A d \in Callbacks \ {c} :
                   IsIn(d, subscribers') = IsIn(d, subscribers)
      ]_vars

\* C13: start() on a running watcher changes nothing; start() on a stopped
\* watcher sets lastSize to the size of the tracked file (0 without a
\* session); and once start() has found n bytes in the tracked file, no
\* step gives a subscriber an entry read from those n bytes.
C13_StartBaseline ==
    [][/\ (start /\ interval) => UNCHANGED <<lastSize, interval, pending>>
       /\ (~interval /\ interval') =>
            lastSize' = getFileSize(currentSessionId, FALSE)
       /\ prior.op = "start" =>
            \A i \in 1..Len(Fresh("c1")) :
              ~(/\ Fresh("c1")[i].sid = prior.sid
                /\ Fresh("c1")[i].gen = prior.gen
                /\ Fresh("c1")[i].off < prior.n)
      ]_vars

\* C14: the step that stops the timer leaves the subscriber set, lastSize,
\* the session and the reads in flight as they are; while the timer is
\* stopped no poll tick takes place; and the step that starts it again
\* finds the subscribers it had.
C14_StopFrame ==
    [][/\ (interval /\ ~interval') =>
            UNCHANGED <<subscribers, lastSize, currentSessionId, pending,
                        received>>
       /\ ~interval =>
            /\ ~checkForChanges(FALSE)
            /\ pending' = pending \/ \E i \in 1..MaxPending : Settles(i)
       /\ (~interval /\ interval') => subscribers' = subscribers
      ]_vars

\* C14's case: the watcher ran, delivered an entry to its subscriber and
\* was stopped; the subscriber is still registered.
C14_Witness ==
    /\ ~interval
    /\ subscribers = <<"c1">>
    /\ received["c1"] # <<>>
    /\ lastSize > 0

\* A poll tick that finds the tracked file smaller than lastSize.
ShrinkTick ==
    /\ checkForChanges(FALSE)
    /\ getFileSize(currentSessionId, FALSE) < lastSize

\* C15, as stated: lastSize decreases only in a poll tick that finds the
\* file smaller than lastSize, and after every poll tick lastSize is the
\* size that the tick observed.
C15_DecreaseOnlyOnShrink ==
    [][/\ lastSize' < lastSize => ShrinkTick
       /\ checkForChanges(FALSE) =>
            lastSize' = getFileSize(currentSessionId, FALSE)
      ]_vars

\* C15, amended: lastSize decreases only in a poll tick that finds the file
\* smaller than lastSize, in setSession and in start() on a stopped
\* watcher; setSession and start() set it to the size of the file tracked
\* from then on, and after every poll tick lastSize is the size that the
\* tick observed.
C15_DecreaseOnlyOnReset ==
    [][/\ lastSize' < lastSize =>
            \/ ShrinkTick
            \/ \E sid \in Sessions : setSession(sid)
            \/ ~interval /\ start
       /\ checkForChanges(FALSE) =>
            lastSize' = getFileSize(currentSessionId, FALSE)
       /\ (\E sid \in Sessions : setSession(sid)) =>
            lastSize' = getFileSize(currentSessionId', FALSE)
       /\ (~interval /\ interval') =>
            lastSize' = getFileSize(currentSessionId, FALSE)
      ]_vars

\* C15's case: a poll tick had advanced lastSize to the end of one
\* session's file, and setSession has since set it lower, to the size of
\* the other session's file.
C15_Witness ==
    /\ prior.op = "setSession"
    /\ prior.n = lastSize
    /\ pending # <<>>
    /\ pending[1].sid # currentSessionId
    /\ pending[1].to > lastSize

\* The session log files of the directory.
SessionFiles == SelectSeq(dir.files, IsSessionFile)

\* C16: getAllEntries() and listSessions() never raise, and they return the
\* empty sequence when the log directory is missing or holds no session
\* file, when no session is selected and when the session file is missing
\* or cannot be read.
C16_QueriesNeverRaise ==
    /\ ~result.raised
    /\ (/\ result.op = "listSessions"
        /\ (~dir.exists \/ SessionFiles = <<>>)) => result.value = <<>>
    /\ (/\ result.op = "getAllEntries"
        /\ (currentSessionId = NoSession
            \/ file[currentSessionId] = <<>>)) => result.value = <<>>

\* a <= b in lexicographic order, for strings of digits.
LexLeq(a, b) ==
    \/ IsPrefix(a, b)
    \/ \E k \in 1..Min(Len(a), Len(b)) :
         /\ SubSeq(a, 1, k - 1) = SubSeq(b, 1, k - 1)
         /\ a[k] = "1"
         /\ b[k] = "2"

\* C17 (P7): the sequence listSessions() returns holds one SessionInfo for
\* each session log file of the directory and no other, every element has
\* a last_entry that is lexicographically at least the last_entry of the
\* element after it, and so the sessions without last_entry come last.
C17_ListingOrder ==
    (result.op = "listSessions" /\ ~result.raised /\ dir.exists) =>
       /\ Len(result.value) = Len(SessionFiles)
       /\ \A k \in 1..Len(SessionFiles) :
            Cardinality({i \in 1..Len(result.value) :
                           result.value[i].session_id
                             = SessionFiles[k].name.id}) = 1
       /\ \A i \in 1..(Len(result.value) - 1) :
            LexLeq(result.value[i + 1].last_entry,
                   result.value[i].last_entry)
       /\ \A i \in 1..Len(result.value) : \A j \in i..Len(result.value) :
            result.value[i].last_entry = <<>>
              => result.value[j].last_entry = <<>>

\* C17's case: three sessions whose last entries are 1, 2 and 12 in the
\* order of the directory are listed as 2, 12, 1.
C17_Witness ==
    /\ result.op = "listSessions"
    /\ Len(SessionFiles) = 3
    /\ [i \in 1..3 |-> SessionFiles[i].text]
         = <<Join(<<T1>>), Join(<<T2>>), Join(<<T12>>)>>
    /\ Len(result.value) = 3
    /\ [i \in 1..3 |-> result.value[i].last_entry]
         = << <<"2">>, <<"1", "2">>, <<"1">> >>

NonEmpty(l) == l.text # <<>>
NonBlank(l) == ~IsBlank(l.text)

\* C18: for a session file, entry_count is the number of its non-empty
\* lines, the lines that do not decode included (whether a line of white
\* space is taken as non-empty or as empty); first_entry and last_entry are
\* the timestamps of its first and last line when both decode, and both
\* are empty when one of the two does not decode or there is no line.
C18_IndexFields ==
    (result.op = "listSessions" /\ ~result.raised
       /\ Len(SessionFiles) = 1 /\ Len(result.value) = 1) =>
      LET all == EveryLine(SessionFiles[1].text)
          lines == SelectSeq(all, NonBlank)
          info == result.value[1]
          first == JSONparse(lines[1].text)
          last == JSONparse(lines[Len(lines)].text)
      IN  /\ info.entry_count \in {Len(SelectSeq(all, NonEmpty)), Len(lines)}
          /\ IF lines # <<>> /\ first.ok /\ last.ok
             THEN /\ info.first_entry = Timestamp(first.val)
                  /\ info.last_entry = Timestamp(last.val)
             ELSE /\ info.first_entry = <<>>
                  /\ info.last_entry = <<>>

\* C19: the answer to GET /api/sessions names as current_session the
\* session the process has active at the request: the one given at process
\* start, or the one the watcher was last switched to by a request.
C19_CurrentSessionReported ==
    [][handleSessionsList =>
         result'.value[1].current_session = currentSessionId]_vars

\* The fields and deliveries of this instance.
ownVars == <<lastSize, interval, subscribers, currentSessionId, pending,
             received>>

\* What a watcher running alone on the file can see and change.
aloneVars == <<envVars, nfaults, ownVars, prior>>

\* C20: with two watcher instances on one session file, no step of a
\* watcher changes the file, a step of one instance leaves the fields and
\* the deliveries of the other as they are, the second instance advances
\* its own lastSize and delivers the entries of its own byte ranges, and
\* what this instance and the file do is a behaviour of this instance
\* running alone on the file.
C20_InstancesIndependent ==
    /\ [][/\ file' # file => (ownVars' = ownVars /\ other' = other)
          /\ other' # other => ownVars' = ownVars
          /\ ownVars' # ownVars => other' = other
          /\ other'.lastSize # other.lastSize =>
               other'.lastSize = Len(file["A"])
          /\ other'.received # other.received =>
               other'.received
                 = other.received \o EntriesOf(other.pending[1])
         ]_vars
    /\ [][\/ AppendBytes("A", GoodLines, WholeLines)
          \/ checkForChanges(FALSE)
          \/ ReadDone(1)
         ]_aloneVars

\* C20's case: both instances have polled the file at different moments;
\* this one has delivered two entries, the other one so far.
C20_Witness ==
    /\ Len(received["c1"]) = 2
    /\ Len(other.received) = 1
    /\ other.lastSize < lastSize
    /\ other.received[1] = received["c1"][1]

\* C21: the stream of a connected SSE client, the snapshot and the live
\* events after it, carries no line of a session file twice, and once
\* nothing is in flight it carries every line of the file of the session it
\* was opened for.
C21_SnapshotThenLive ==
    streams["c1"].open =>
      /\ \A i, j \in 1..Len(received["c1"]) :
           (/\ received["c1"][i].sid = received["c1"][j].sid
            /\ received["c1"][i].gen = received["c1"][j].gen
            /\ received["c1"][i].off = received["c1"][j].off) => i = j
      /\ (/\ streams["c1"].session # NoSession
          /\ streams["c1"].session = currentSessionId
          /\ Quiet(currentSessionId)) =>
            \A k \in 1..Len(CompleteLines(file[currentSessionId])) :
              \E i \in 1..Len(received["c1"]) :
                /\ received["c1"][i].sid = currentSessionId
                /\ received["c1"][i].off
                     = CompleteLines(file[currentSessionId])[k].off

\* C22: every entry given to a subscriber was read from the file of the
\* session that is currentSessionId when it is given: a read started for
\* one session does not deliver after setSession has selected another.
C22_DeliveredFromCurrentSession ==
    [][\A c \in Callbacks : \A i \in 1..Len(Fresh(c)) :
         Fresh(c)[i].sid = currentSessionId]_vars

\* C23: as long as the stream of an SSE client is open, every live entry
\* it carries comes from the file of the session the stream was opened
\* for, whatever other requests the server handles meanwhile.
C23_StreamKeepsItsSession ==
    streams["c1"].open =>
      \A i \in 1..Len(received["c1"]) :
        received["c1"][i].sid = streams["c1"].session

OpenStreams == {c \in Callbacks : streams[c].open}

\* C24: the callbacks subscribed to the watcher are those of the SSE
\* streams that were opened and not yet cancelled, one each, and a stream's
\* heartbeat timer runs exactly as long as the stream is open.
C24_SubscribersAreOpenStreams ==
    /\ Len(subscribers) = Cardinality(OpenStreams)
    /\ \A c \in Callbacks :
         /\ IsIn(c, subscribers) <=> streams[c].open
         /\ streams[c].heartbeat <=> streams[c].open

\* C24's case: the stream of c1 carried an entry and was cancelled, the
\* stream of c2 is open, and c2 is the one subscriber.
C24_Witness ==
    /\ ~streams["c1"].open
    /\ received["c1"] # <<>>
    /\ streams["c2"].open
    /\ subscribers = <<"c2">>

\* C25: when the tracked file grows only while the watcher is stopped, no
\* subscriber is ever given a live entry, and getAllEntries() returns every
\* record of the file.
C25_StoppedAppendsStaySilent ==
    /\ received["c1"] = <<>>
    /\ AllEntries("A", FALSE) = DecodeAll(CompleteLines(file["A"]))

\* The phases each gate leads from and to.
GateFrom(gate) ==
    CASE gate = "kenl-to-awi" -> "KENL"
      [] gate = "awi-to-atom" -> "AWI"
      [] gate = "atom-to-saif" -> "ATOM"
      [] gate = "saif-to-spiral" -> "SAIF"

GateTo(gate) ==
    CASE gate = "kenl-to-awi" -> "AWI"
      [] gate = "awi-to-atom" -> "ATOM"
      [] gate = "atom-to-saif" -> "SAIF"
      [] gate = "saif-to-spiral" -> "KENL"

\* The number of checks each gate makes.
GateChecks(gate) == IF gate = "saif-to-spiral" THEN 3 ELSE 4

\* C26: a call of validateGate returns a GateResult; for one of the four
\* gates it carries the gate's checks, passed is true exactly when all of
\* them are true, failed_checks lists the names of the false ones in check
\* order, and from and to are the gate's phases; for any other gate name
\* passed is false and failed_checks is ['unknown_gate'].
C26_ValidateGate ==
    gateResult.kind \in {"GateResult", "string", "raised"} =>
      /\ gateResult.kind = "GateResult"
      /\ IF gateResult.gate \in Gates
         THEN /\ Len(gateResult.checks) = GateChecks(gateResult.gate)
              /\ gateResult.passed <=>
                   \A i \in 1..Len(gateResult.checks) :
                     gateResult.checks[i].ok
              /\ gateResult.failed_checks =
                   [i \in 1..Len(gateResult.failed_checks) |->
                      SelectSeq(gateResult.checks,
                                LAMBDA c : ~c.ok)[i].name]
              /\ Len(gateResult.failed_checks) =
                   Len(SelectSeq(gateResult.checks, LAMBDA c : ~c.ok))
              /\ gateResult.from = GateFrom(gateResult.gate)
              /\ gateResult.to = GateTo(gateResult.gate)
         ELSE /\ ~gateResult.passed
              /\ gateResult.failed_checks = << "unknown_gate" >>

\* The phase that follows each phase in the cycle.
NextPhase(phase) ==
    CASE phase = "KENL" -> "AWI"
      [] phase = "AWI" -> "ATOM"
      [] phase = "ATOM" -> "SAIF"
      [] phase = "SAIF" -> "KENL"

GateOut(phase) ==
    CASE phase = "KENL" -> "kenl-to-awi"
      [] phase = "AWI" -> "awi-to-atom"
      [] phase = "ATOM" -> "atom-to-saif"
      [] phase = "SAIF" -> "saif-to-spiral"

\* C27: isTransitionReady(from, to, context) is false unless to is the
\* phase that follows from in the cycle KENL, AWI, ATOM, SAIF, KENL; for
\* such a pair it is true exactly when every check of the gate out of from
\* is true on the context.
C27_ReadyFollowsCycle ==
    gateResult.kind = "ready" =>
      gateResult.passed <=>
        /\ gateResult.to = NextPhase(gateResult.from)
        /\ \A i \in 1..Len(validator(GateOut(gateResult.from),
                                     context).checks) :
             validator(GateOut(gateResult.from), context).checks[i].ok

\* C27's case: the transition from SAIF back to KENL was found ready.
C27_Witness ==
    /\ gateResult.kind = "ready"
    /\ gateResult.passed
    /\ gateResult.from = "SAIF"
    /\ gateResult.to = "KENL"

TagsOf(type, date, n) ==
    {i \in 1..n : tags[i].type = type /\ tags[i].date = date}

\* C28: the n-th tag generated for a type and date carries counter n,
\* written with three digits; tags of one type and date carry different
\* counters; and the counter of each key has advanced by one per tag or
\* decision made for it.
C28_CountersPerKey ==
    /\ \A i \in 1..Len(tags) :
         tags[i].counter =
           padStart(toString(Cardinality(TagsOf(tags[i].type,
                                                tags[i].date, i))), 3)
    /\ \A i, j \in 1..Len(tags) :
         (/\ i # j
          /\ tags[i].type = tags[j].type
          /\ tags[i].date = tags[j].date) =>
            tags[i].counter # tags[j].counter
    /\ \A type \in AtomTypes : \A date \in {Day1, Day2} :
         MapGet(counters, CounterKey(type, date))
           = Cardinality(TagsOf(type, date, Len(tags)))

\* C28's case: two FIX tags of the first day, the second made by
\* createDecision, then a DOC tag, then a FIX tag of the next day.
C28_Witness ==
    /\ Len(tags) = 4
    /\ tags[1].type = FIX /\ tags[1].counter = <<"0", "0", "1">>
    /\ tags[2].type = FIX /\ tags[2].counter = <<"0", "0", "2">>
    /\ tags[2].by = "createDecision"
    /\ tags[3].type = DOC /\ tags[3].counter = <<"0", "0", "1">>
    /\ tags[4].type = FIX /\ tags[4].date = Day2
    /\ tags[4].counter = <<"0", "0", "1">>

\* C29: the counters the invocations of the script obtained are pairwise
\* different, and once every invocation has returned the counter file
\* holds their number.
C29_ScriptCountersDistinct ==
    /\ \A i, j \in 1..Len(issued) : issued[i] = issued[j] => i = j
    /\ (\A p \in Procs : runs[p].pc = "idle") =>
         IF Len(issued) = 0 THEN ~counterFile.exists
         ELSE counterFile.content = toString(Len(issued))

\* C30: a hook has spawned a viewer only if its source is "startup" and
\* its probe found no viewer; every spawned viewer belongs to such a hook;
\* and a hook that has written its output has written its log record.
C30_HookSpawnsOnlyOnStartup ==
    /\ \A h \in Hooks :
         /\ hooks[h].spawned > 0 =>
              /\ hooks[h].source = "startup"
              /\ hooks[h].probed
              /\ ~hooks[h].viewerRunning
         /\ hooks[h].probed => hooks[h].source = "startup"
         /\ hooks[h].written => hooks[h].logged
    /\ Len(viewers) =
         Cardinality({h \in Hooks : hooks[h].spawned > 0})

\* C30's case: one hook started on "startup", found no viewer, spawned
\* one and wrote its output; another ran on "resume" and wrote its output
\* without spawning.
C30_Witness ==
    /\ hooks["h1"].source = "startup"
    /\ hooks["h1"].spawned = 1
    /\ hooks["h1"].written
    /\ hooks["h2"].source = "resume"
    /\ hooks["h2"].written
    /\ Len(viewers) = 1

====
